---- MODULE Spec2Model ----
(***************************************************************************)
(* Model of the mock invoice service: the inconsistency-injecting          *)
(* generator (app/utils/generator.py), the two storage backends            *)
(* (app/db/database.py) and the invoice request handlers                   *)
(* (app/api/invoices.py).                                                  *)
(*                                                                         *)
(* Python values are tagged records [t |-> <type name>, v |-> <payload>];  *)
(* a dict is a function from its present keys to values, so an absent key  *)
(* and a key holding None are different things.  Probabilities and the     *)
(* results of random.random() are in permille (0..999 for a draw).         *)
(***************************************************************************)
EXTENDS Integers, Sequences, FiniteSets, TLC

(***************************************************************************)
(* Bounds of the model.                                                    *)
(***************************************************************************)
MaxCount == 2        \* largest count a generate / seed request asks for
MaxHistory == 2      \* fresh records one generator instance produces
MaxStored == 2       \* records the stored collection holds
MaxOid == 2          \* ObjectIds the document-store client hands out
MaxPage == 2         \* largest page number of a stored-list request
MaxPageSize == 2     \* largest page size of a stored-list request

(***************************************************************************)
(* Python values.                                                          *)
(***************************************************************************)
PyNone == [t |-> "NoneType", v |-> "None"]
PyStr(s) == [t |-> "str", v |-> s]
PyFloat(cents) == [t |-> "float", v |-> cents]
PyInt(n) == [t |-> "int", v |-> n]
PyList(s) == [t |-> "list", v |-> s]
PyDict(f) == [t |-> "dict", v |-> f]
PyDatetime(us) == [t |-> "datetime", v |-> us]
PyObjectId(n) == [t |-> "ObjectId", v |-> n]

EmptyDict == [k \in {} |-> PyNone]

\* d[key] = val on a dict
SetItem(d, key, val) == [k \in DOMAIN d \cup {key} |-> IF k = key THEN val ELSE d[k]]

\* if cond: d[key] = val
SetItemIf(cond, d, key, val) == IF cond THEN SetItem(d, key, val) ELSE d

\* d.get(key, default)
DictGet(d, key, default) == IF key \in DOMAIN d THEN d[key] ELSE default

Digit(n) == <<"0", "1", "2", "3", "4", "5", "6", "7", "8", "9">>[n + 1]

\* format(n, "02d") and format(n, "03d") for n >= 0
Pad2(n) == IF n < 10 THEN "0" \o ToString(n) ELSE ToString(n)
Pad3(n) == IF n < 10 THEN "00" \o ToString(n)
           ELSE IF n < 100 THEN "0" \o ToString(n) ELSE ToString(n)

\* repr of a float that holds a whole number of cents: 1250.5, 1250.0, -3.07
FloatRepr(cents) ==
    LET a == IF cents < 0 THEN 0 - cents ELSE cents
        frac == a % 100
        fs == IF frac % 10 = 0 THEN Digit(frac \div 10) ELSE Pad2(frac)
    IN (IF cents < 0 THEN "-" ELSE "") \o ToString(a \div 100) \o "." \o fs

\* format(x, ",.2f") for x >= 0 below a million
CommaFormat(cents) ==
    LET whole == cents \div 100
        head == IF whole >= 1000
                THEN ToString(whole \div 1000) \o "," \o Pad3(whole % 1000)
                ELSE ToString(whole)
    IN head \o "." \o Pad2(cents % 100)

\* str(x) as an f-string interpolates it
Str(x) == CASE x.t = "str" -> x.v
            [] x.t = "NoneType" -> "None"
            [] x.t = "float" -> FloatRepr(x.v)
            [] x.t = "int" -> ToString(x.v)
            [] OTHER -> "<object>"

\* random.choice(seq) for the draw u of the underlying random number
Choice(seq, u) == seq[(u * Len(seq)) \div 1000 + 1]

(***************************************************************************)
(* FieldSynthesizer: generate_amount, generate_datetime, generate_currency,*)
(* generate_vendor_name.  rate is self.inconsistency_rate, d the draws.    *)
(***************************************************************************)
AmountTexts == <<"TWO THOUSAND", "invalid_amount", "TBD", "N/A">>
AmountInconsistencies ==
    <<"string_with_symbol", "string_number", "text", "null", "negative">>

generate_amount(rate, d) ==
    LET base_amount == d.base_amount
        inconsistency_type == Choice(AmountInconsistencies, d.amt_type)
    IN IF d.amt < rate
       THEN CASE inconsistency_type = "string_with_symbol" ->
                     PyStr("$" \o CommaFormat(base_amount))
              [] inconsistency_type = "string_number" ->
                     PyStr(FloatRepr(base_amount))
              [] inconsistency_type = "text" ->
                     PyStr(Choice(AmountTexts, d.amt_text))
              [] inconsistency_type = "null" -> PyNone
              [] inconsistency_type = "negative" -> PyFloat(0 - base_amount)
       ELSE PyFloat(base_amount)

DatetimeInconsistencies ==
    <<"invalid_format", "missing_timezone", "text", "null">>

generate_datetime(rate, d) ==
    LET b == d.base_date
        inconsistency_type == Choice(DatetimeInconsistencies, d.dt_type)
        iso == b.Y \o "-" \o b.m \o "-" \o b.d \o "T"
                   \o b.H \o ":" \o b.M \o ":" \o b.S
    IN IF d.dt < rate
       THEN CASE inconsistency_type = "invalid_format" ->
                     PyStr(b.d \o "/" \o b.m \o "/" \o b.Y \o " "
                               \o b.H \o ":" \o b.M)
              [] inconsistency_type = "missing_timezone" -> PyStr(iso)
              [] inconsistency_type = "text" -> PyStr("invalid_datetime")
              [] inconsistency_type = "null" -> PyNone
       ELSE PyStr(iso \o "Z")

Currencies == <<"USD", "EUR", "GBP", "CAD", "AUD">>

generate_currency(rate, d) ==
    IF d.cur * 10 < rate * 5
    THEN PyNone
    ELSE PyStr(Choice(Currencies, d.cur_pick))

VendorSuffixes == <<"Inc.", "Corp", "LLC", "Services", "Technologies",
                    "Global", "Co.", "Solutions", "Innovations">>

generate_vendor_name(d) == PyStr(d.company \o " " \o Choice(VendorSuffixes, d.suffix))

(***************************************************************************)
(* The generator instance.  g is the instance state                        *)
(* [message_counter, invoice_counter, generated_messages]; operations      *)
(* that change it return the new state next to their result.               *)
(***************************************************************************)
InitialMessageCounter == 1
InitialInvoiceCounter == 1001

NewGenerator ==
    [message_counter |-> InitialMessageCounter,
     invoice_counter |-> InitialInvoiceCounter,
     generated_messages |-> <<>>]

\* the id is formatted but the counter is not advanced
generate_message_id_stuck(g) ==
    [g |-> g, out |-> "msg_" \o Pad3(g.message_counter)]

generate_message_id(g) ==
    [g |-> [g EXCEPT !.message_counter = @ + 1],
     out |-> "msg_" \o Pad3(g.message_counter)]

generate_invoice_id(g) ==
    [g |-> [g EXCEPT !.invoice_counter = @ + 1],
     out |-> "INV-" \o ToString(g.invoice_counter)]

ProjectLetters == <<"X", "Y", "Z">>
Statuses == <<"paid", "pending", "due", "overdue">>

\* round(float(amount if it is a number else 100) * 0.15, 2), in cents
TaxAmount(amount) ==
    LET cents == IF amount.t \in {"int", "float"} THEN amount.v ELSE 10000
        a == IF cents < 0 THEN 0 - cents ELSE cents
        r == (a * 15 + 50) \div 100
    IN PyFloat(IF cents < 0 THEN 0 - r ELSE r)

LineItem(ld) ==
    PyDict([item |-> PyStr(ld.word),
            quantity |-> PyInt(ld.quantity),
            rate |-> PyFloat(ld.rate)])

\* the schema-drift block of generate_invoice_data
AddExtraFields(data, amount, d) ==
    LET d1 == SetItemIf(d.due < 400, data, "due_date", PyStr(d.due_date))
        d2 == SetItemIf(d.proj < 400, d1, "project_code",
                  PyStr("PROJ-" \o Choice(ProjectLetters, d.proj_letter)
                                 \o ToString(d.proj_digit)))
        d3 == SetItemIf(d.tax < 300, d2, "tax_amount", TaxAmount(amount))
        d4 == SetItemIf(d.appr < 200, d3, "approver", PyStr(d.approver))
    IN SetItemIf(d.items < 150, d4, "line_items",
           PyList([i \in 1..Len(d.line_draws) |-> LineItem(d.line_draws[i])]))

\* vendor_name is treated like the omittable fields
generate_invoice_data_omits_vendor(g, rate, include_extra_fields, d) ==
    LET id == generate_invoice_id(g)
        i1 == SetItem(EmptyDict, "invoice_id", PyStr(id.out))
        i2 == SetItem(i1, "amount", generate_amount(rate, d))
        i3 == SetItem(i2, "date", PyStr(d.date))
    IN [g |-> id.g,
        out |-> SetItemIf(d.inc_status > 300, i3, "vendor_name",
                          generate_vendor_name(d))]

\* the currency key is set also when generate_currency returned None
generate_invoice_data_null_currency(g, rate, include_extra_fields, d) ==
    LET id == generate_invoice_id(g)
        amount == generate_amount(rate, d)
        i1 == SetItemIf(d.inc_id * 10 > rate * 3, EmptyDict, "invoice_id",
                        PyStr(id.out))
        i2 == SetItemIf(d.inc_amt * 10 > rate * 2, i1, "amount", amount)
        i3 == SetItem(i2, "currency", generate_currency(rate, d))
        i4 == SetItem(i3, "date", PyStr(d.date))
        i5 == SetItem(i4, "vendor_name", generate_vendor_name(d))
        i6 == SetItemIf(d.inc_status > 300, i5, "status",
                        PyStr(Choice(Statuses, d.status_pick)))
    IN [g |-> id.g,
        out |-> IF include_extra_fields \/ d.drift < 300
                THEN AddExtraFields(i6, amount, d) ELSE i6]

generate_invoice_data(g, rate, include_extra_fields, d) ==
    LET id == generate_invoice_id(g)
        invoice_id == PyStr(id.out)
        amount == generate_amount(rate, d)
        currency == generate_currency(rate, d)
        date == PyStr(d.date)
        vendor_name == generate_vendor_name(d)
        status == PyStr(Choice(Statuses, d.status_pick))
        i1 == SetItemIf(d.inc_id * 10 > rate * 3, EmptyDict, "invoice_id", invoice_id)
        i2 == SetItemIf(d.inc_amt * 10 > rate * 2, i1, "amount", amount)
        i3 == SetItemIf(currency # PyNone, i2, "currency", currency)
        i4 == SetItem(i3, "date", date)
        i5 == SetItem(i4, "vendor_name", vendor_name)
        i6 == SetItemIf(d.inc_status > 300, i5, "status", status)
    IN [g |-> id.g,
        out |-> IF include_extra_fields \/ d.drift < 300
                THEN AddExtraFields(i6, amount, d) ELSE i6]

(***************************************************************************)
(* generate_email_invoice.  The result names the record (email) and, in h, *)
(* the position in generated_messages of the very object returned: a       *)
(* fresh record is the object appended to the history, a duplicate is a    *)
(* new object (h = 0) made by dict.copy().                                 *)
(***************************************************************************)
\* lines 207-247 of generate_email_invoice: the message built from the
\* message id (mid) and the invoice data (inv) already generated
EmailMessage(mid, inv, rate, d) ==
      LET invoice_data == inv.out
          invoice_id == Str(DictGet(invoice_data, "invoice_id", PyStr("UNKNOWN")))
          amount == Str(DictGet(invoice_data, "amount", PyStr("N/A")))
          subject_templates ==
              <<"Invoice " \o invoice_id,
                "Invoice #" \o invoice_id,
                "URGENT: Invoice " \o invoice_id,
                invoice_id \o " Payment Request",
                invoice_id \o " for Project " \o Choice(ProjectLetters, d.subj_letter),
                "Invoice Notification">>
          body_templates ==
              <<"Please find invoice " \o invoice_id \o " for $" \o amount
                    \o " dated " \o Str(DictGet(invoice_data, "date", PyStr("N/A"))),
                "Invoice " \o invoice_id \o " Amount: $" \o amount,
                "Invoice details: " \o invoice_id \o " for $" \o amount,
                "Here's our invoice for services",
                "Amount: $" \o amount,
                "Final invoice for project completion">>
      IN [message_id |-> PyStr(mid.out),
          subject |-> PyStr(Choice(subject_templates, d.subj)),
          sender |-> PyStr(d.sender),
          received_at |-> generate_datetime(rate, d),
          body |-> PyStr(Choice(body_templates, d.body)),
          invoice_data |-> PyDict(invoice_data)]

\* self.generated_messages.append(email_message); return email_message
StoreForDuplication(g, email_message) ==
    [g |-> [g EXCEPT !.generated_messages = Append(@, email_message)],
     email |-> email_message,
     h |-> Len(g.generated_messages) + 1]

WithInvoiceData(mid, inv, rate, d) ==
    StoreForDuplication(inv.g, EmailMessage(mid, inv, rate, d))

WithMessageId(mid, rate, d) ==
    WithInvoiceData(mid, generate_invoice_data(mid.g, rate, FALSE, d), rate, d)

\* the fresh-record part of generate_email_invoice
FreshEmail(g, rate, d) == WithMessageId(generate_message_id(g), rate, d)

\* a duplicate is given a sender of its own
generate_email_invoice_resent(g, rate, force_duplicate, d) ==
    IF force_duplicate /\ g.generated_messages # <<>>
    THEN [g |-> g,
          email |-> [Choice(g.generated_messages, d.pick)
                        EXCEPT !.sender = PyStr("resent:" \o @.v)],
          h |-> 0]
    ELSE FreshEmail(g, rate, d)

\* the duplicate is appended to the history as well
generate_email_invoice_stores_copy(g, rate, force_duplicate, d) ==
    IF force_duplicate /\ g.generated_messages # <<>>
    THEN [g |-> [g EXCEPT !.generated_messages =
                     Append(@, Choice(g.generated_messages, d.pick))],
          email |-> Choice(g.generated_messages, d.pick), h |-> 0]
    ELSE FreshEmail(g, rate, d)

generate_email_invoice(g, rate, force_duplicate, d) ==
    IF force_duplicate /\ g.generated_messages # <<>>
    THEN [g |-> g, email |-> Choice(g.generated_messages, d.pick), h |-> 0]
    ELSE FreshEmail(g, rate, d)

(***************************************************************************)
(* generate_batch: ds holds the draws of the count iterations.  The batch  *)
(* is a sequence of [email, h] entries.                                    *)
(***************************************************************************)
\* the record is put at the head of the batch
BatchAppend_prepends(batch, e) ==
    [g |-> e.g, batch |-> <<[email |-> e.email, h |-> e.h]>> \o batch]

\* batch.append(email)
BatchAppend(batch, e) ==
    [g |-> e.g, batch |-> Append(batch, [email |-> e.email, h |-> e.h])]

\* one iteration of the for loop, from the state st = [g, batch]
BatchIteration(st, rate, duplicate_rate, d) ==
    BatchAppend(st.batch,
        generate_email_invoice(st.g, rate,
            d.dup < duplicate_rate /\ Len(st.g.generated_messages) > 0, d))

BatchLoop(g, rate, duplicate_rate, ds) ==
    LET st[i \in 0..Len(ds)] ==
            IF i = 0 THEN [g |-> g, batch |-> <<>>]
            ELSE BatchIteration(st[i - 1], rate, duplicate_rate, ds[i])
    IN st[Len(ds)]

\* the loop stops one iteration early
generate_batch_short(g, rate, duplicate_rate, ds) ==
    BatchLoop(g, rate, duplicate_rate, SubSeq(ds, 1, Len(ds) - 1))

generate_batch(g, rate, duplicate_rate, ds) ==
    BatchLoop(g, rate, duplicate_rate, ds)

(***************************************************************************)
(* JSON text as json.dump(..., default=str) writes it and json.load reads  *)
(* it back.  A JSON value is [j |-> <token kind>, v |-> <payload>].        *)
(***************************************************************************)
\* str(o) of an object json cannot serialise, the default= hook
DefaultStr(x) ==
    CASE x.t = "datetime" -> "datetime " \o ToString(x.v)
      [] x.t = "ObjectId" -> "oid" \o Pad3(x.v)
      [] OTHER -> "<object>"

RECURSIVE json_dump(_)
json_dump(x) ==
    CASE x.t = "dict" -> [j |-> "object",
                          v |-> [k \in DOMAIN x.v |-> json_dump(x.v[k])]]
      [] x.t = "list" -> [j |-> "array",
                          v |-> [i \in 1..Len(x.v) |-> json_dump(x.v[i])]]
      [] x.t = "str" -> [j |-> "string", v |-> x.v]
      [] x.t = "float" -> [j |-> "real", v |-> x.v]
      [] x.t = "int" -> [j |-> "integer", v |-> x.v]
      [] x.t = "NoneType" -> [j |-> "null", v |-> "null"]
      [] OTHER -> [j |-> "string", v |-> DefaultStr(x)]

RECURSIVE json_load(_)
json_load(y) ==
    CASE y.j = "object" -> PyDict([k \in DOMAIN y.v |-> json_load(y.v[k])])
      [] y.j = "array" -> PyList([i \in 1..Len(y.v) |-> json_load(y.v[i])])
      [] y.j = "string" -> PyStr(y.v)
      [] y.j = "real" -> PyFloat(y.v)
      [] y.j = "integer" -> PyInt(y.v)
      [] y.j = "null" -> PyNone

\* a list of dicts as the sequence of their key -> value functions, and back
Dicts(lst) == [i \in 1..Len(lst.v) |-> lst.v[i].v]
ListOfDicts(seq) == PyList([i \in 1..Len(seq) |-> PyDict(seq[i])])

(***************************************************************************)
(* JSONDatabase.  file is the text of the JSON file.                       *)
(***************************************************************************)
EmptyFile == json_dump(PyList(<<>>))

\* the text a write leaves behind when it fails after open(path, 'w')
\* truncated the file and before json.dump wrote the last character
Truncated(text) == [j |-> "truncated", v |-> text]

\* the file does not exist: open(path, 'r') raises FileNotFoundError, and
\* open(path, 'w') creates it
MissingFile == [j |-> "missing", v |-> <<>>]

\* open(path, 'r') raises FileNotFoundError on a missing file and json.load
\* raises JSONDecodeError on a text that is not a JSON value
IsJson(text) == text.j \notin {"truncated", "missing"}

\* the text that is not JSON is parsed as far as it was written
JSON_read_data_salvages(file) ==
    IF IsJson(file) THEN Dicts(json_load(file))
    ELSE IF file.j = "truncated" THEN Dicts(json_load(file.v)) ELSE <<>>

\* except (json.JSONDecodeError, FileNotFoundError): return []
JSON_read_data(file) == IF IsJson(file) THEN Dicts(json_load(file)) ELSE <<>>

\* keys holding None are left out of the file
JSON_write_data_drops_null(data) ==
    json_dump(ListOfDicts(
        [i \in 1..Len(data) |->
            [k \in {x \in DOMAIN data[i] : data[i][x] # PyNone} |-> data[i][k]]]))

JSON_write_data(data) == json_dump(ListOfDicts(data))

\* the batch replaces the stored data instead of extending it
JSON_save_invoices_overwrites(file, invoices) ==
    [file |-> JSON_write_data(invoices), ok |-> TRUE]

\* records equal to a stored record, or to an earlier record of the batch,
\* are not stored again
JSON_save_invoices_dedupes(file, invoices) ==
    LET kept[i \in 0..Len(invoices)] ==
            IF i = 0 THEN JSON_read_data(file)
            ELSE IF \E k \in 1..Len(kept[i - 1]) : kept[i - 1][k] = invoices[i]
                 THEN kept[i - 1]
                 ELSE Append(kept[i - 1], invoices[i])
    IN [file |-> JSON_write_data(kept[Len(invoices)]), ok |-> TRUE]

\* invoices: sequence of dicts.  Result: the file and the value returned.
JSON_save_invoices(file, invoices) ==
    LET existing_data == JSON_read_data(file)
    IN [file |-> JSON_write_data(existing_data \o invoices), ok |-> TRUE]

JSON_get_all_invoices(file) == JSON_read_data(file)

JSON_get_invoice_count(file) == Len(JSON_read_data(file))

\* success is reported but the file is not rewritten
JSON_clear_invoices_keeps(file) == [file |-> file, ok |-> TRUE]

JSON_clear_invoices(file) == [file |-> JSON_write_data(<<>>), ok |-> TRUE]

(***************************************************************************)
(* BSON documents as the document store keeps them: a datetime is stored   *)
(* with millisecond precision.                                             *)
(***************************************************************************)
RECURSIVE bson_encode(_)
bson_encode(x) ==
    CASE x.t = "dict" -> [b |-> "document",
                          v |-> [k \in DOMAIN x.v |-> bson_encode(x.v[k])]]
      [] x.t = "list" -> [b |-> "array",
                          v |-> [i \in 1..Len(x.v) |-> bson_encode(x.v[i])]]
      [] x.t = "str" -> [b |-> "string", v |-> x.v]
      [] x.t = "float" -> [b |-> "double", v |-> x.v]
      [] x.t = "int" -> [b |-> "int", v |-> x.v]
      [] x.t = "NoneType" -> [b |-> "null", v |-> "null"]
      [] x.t = "datetime" -> [b |-> "date", v |-> x.v \div 1000]
      [] x.t = "ObjectId" -> [b |-> "objectId", v |-> x.v]

RECURSIVE bson_decode(_)
bson_decode(y) ==
    CASE y.b = "document" -> PyDict([k \in DOMAIN y.v |-> bson_decode(y.v[k])])
      [] y.b = "array" -> PyList([i \in 1..Len(y.v) |-> bson_decode(y.v[i])])
      [] y.b = "string" -> PyStr(y.v)
      [] y.b = "double" -> PyFloat(y.v)
      [] y.b = "int" -> PyInt(y.v)
      [] y.b = "null" -> PyNone
      [] y.b = "date" -> PyDatetime(y.v * 1000)
      [] y.b = "objectId" -> PyObjectId(y.v)

(***************************************************************************)
(* MongoDatabase.  collection is the sequence of stored documents in       *)
(* insertion order, next_oid the next ObjectId the client generates.       *)
(***************************************************************************)
\* the for loop of save_invoices: invoice['_created_at'] = datetime.utcnow()
StampCreatedAt(invoices, now) ==
    [i \in 1..Len(invoices) |-> SetItem(invoices[i], "_created_at", PyDatetime(now))]

\* insert_many gives every document that has no _id a fresh ObjectId,
\* in the caller's dict
RECURSIVE AssignIds(_, _, _)
AssignIds(invoices, i, next_oid) ==
    IF i > Len(invoices)
    THEN [invoices |-> invoices, next_oid |-> next_oid]
    ELSE IF "_id" \in DOMAIN invoices[i]
         THEN AssignIds(invoices, i + 1, next_oid)
         ELSE AssignIds([invoices EXCEPT ![i] = SetItem(@, "_id", PyObjectId(next_oid))],
                        i + 1, next_oid + 1)

\* the ordered bulk insert: documents go in one by one and the first one
\* whose _id is already stored stops the operation with a BulkWriteError
RECURSIVE BulkInsert(_, _, _)
BulkInsert(collection, invoices, i) ==
    IF i > Len(invoices)
    THEN [collection |-> collection, raised |-> FALSE]
    ELSE LET doc == bson_encode(PyDict(invoices[i]))
         IN IF \E k \in 1..Len(collection) : collection[k].v["_id"] = doc.v["_id"]
            THEN [collection |-> collection, raised |-> TRUE]
            ELSE BulkInsert(Append(collection, doc), invoices, i + 1)

\* the BulkWriteError is swallowed and success reported
Mongo_save_invoices_reports_success(collection, next_oid, invoices, now) ==
    IF invoices # <<>>
    THEN LET stamped == StampCreatedAt(invoices, now)
             ids == AssignIds(stamped, 1, next_oid)
             ins == BulkInsert(collection, ids.invoices, 1)
         IN [collection |-> ins.collection, next_oid |-> ids.next_oid,
             invoices |-> ids.invoices, ok |-> TRUE]
    ELSE [collection |-> collection, next_oid |-> next_oid,
          invoices |-> invoices, ok |-> TRUE]

\* Result: the collection, the ObjectId counter, the invoices as the call
\* leaves the caller's dicts, and the value returned.
Mongo_save_invoices(collection, next_oid, invoices, now) ==
    IF invoices # <<>>
    THEN LET stamped == StampCreatedAt(invoices, now)
             ids == AssignIds(stamped, 1, next_oid)
             ins == BulkInsert(collection, ids.invoices, 1)
             inserted_ids == [i \in 1..Len(ids.invoices) |-> ids.invoices[i]["_id"]]
         IN [collection |-> ins.collection, next_oid |-> ids.next_oid,
             invoices |-> ids.invoices,
             ok |-> IF ins.raised THEN FALSE
                    ELSE Len(inserted_ids) = Len(invoices)]
    ELSE [collection |-> collection, next_oid |-> next_oid,
          invoices |-> invoices, ok |-> TRUE]

Mongo_get_all_invoices(collection) ==
    LET invoices == [i \in 1..Len(collection) |-> bson_decode(collection[i]).v]
    IN [i \in 1..Len(invoices) |->
           IF "_id" \in DOMAIN invoices[i]
           THEN SetItem(invoices[i], "_id", PyStr(DefaultStr(invoices[i]["_id"])))
           ELSE invoices[i]]

Mongo_get_invoice_count(collection) == Len(collection)

Mongo_clear_invoices(collection) == [collection |-> <<>>, ok |-> TRUE]

(***************************************************************************)
(* The backend the factory selected.  db is the state of the storage:      *)
(* [database_type, file, collection, next_oid].                            *)
(***************************************************************************)
NewDatabase(database_type) ==
    [database_type |-> database_type, file |-> EmptyFile,
     collection |-> <<>>, next_oid |-> 1]

save_invoices(db, invoices, now) ==
    IF db.database_type = "mongodb"
    THEN LET r == Mongo_save_invoices(db.collection, db.next_oid, invoices, now)
         IN [db |-> [db EXCEPT !.collection = r.collection, !.next_oid = r.next_oid],
             invoices |-> r.invoices, ok |-> r.ok]
    ELSE LET r == JSON_save_invoices(db.file, invoices)
         IN [db |-> [db EXCEPT !.file = r.file], invoices |-> invoices, ok |-> r.ok]

get_all_invoices(db) ==
    IF db.database_type = "mongodb"
    THEN Mongo_get_all_invoices(db.collection)
    ELSE JSON_get_all_invoices(db.file)

get_invoice_count(db) ==
    IF db.database_type = "mongodb"
    THEN Mongo_get_invoice_count(db.collection)
    ELSE JSON_get_invoice_count(db.file)

clear_invoices(db) ==
    IF db.database_type = "mongodb"
    THEN LET r == Mongo_clear_invoices(db.collection)
         IN [db |-> [db EXCEPT !.collection = r.collection], ok |-> r.ok]
    ELSE LET r == JSON_clear_invoices(db.file)
         IN [db |-> [db EXCEPT !.file = r.file], ok |-> r.ok]

(***************************************************************************)
(* Storage operations under I/O faults.  fault names the call that raises: *)
(* "none"; on the flat file "read" (open(path, 'r') raises an OSError      *)
(* other than FileNotFoundError), "open" (open(path, 'w') raises, the file *)
(* is untouched) and "write" (json.dump raises after the file was          *)
(* truncated); on the document store "connect" (the operation raises and   *)
(* the store did nothing) and "reply" (the store did it and the reply was  *)
(* lost).  A result holds ok, the value returned, and escaped, whether the *)
(* exception left the method.                                              *)
(***************************************************************************)
SaveFaults(db_type) ==
    IF db_type = "mongodb" THEN {"connect", "reply"} ELSE {"read", "open", "write"}

ClearFaults(db_type) ==
    IF db_type = "mongodb" THEN {"connect", "reply"} ELSE {"open", "write"}

\* _write_data when fault strikes: the file it leaves
JSON_write_data_io(file, data, fault) ==
    CASE fault = "open" -> file
      [] fault = "write" -> Truncated(JSON_write_data(data))
      [] OTHER -> JSON_write_data(data)

\* the except clause lets the exception through
JSON_save_invoices_io_uncaught(file, invoices, fault) ==
    IF fault = "none"
    THEN [file |-> JSON_save_invoices(file, invoices).file, ok |-> TRUE,
          escaped |-> FALSE]
    ELSE [file |-> IF fault = "read" THEN file
                   ELSE JSON_write_data_io(file, JSON_read_data(file) \o invoices,
                                           fault),
          ok |-> FALSE, escaped |-> TRUE]

\* try: ... return True / except Exception: return False
JSON_save_invoices_io(file, invoices, fault) ==
    IF fault = "none"
    THEN [file |-> JSON_save_invoices(file, invoices).file,
          ok |-> JSON_save_invoices(file, invoices).ok, escaped |-> FALSE]
    ELSE [file |-> IF fault = "read" THEN file
                   ELSE JSON_write_data_io(file, JSON_read_data(file) \o invoices,
                                           fault),
          ok |-> FALSE, escaped |-> FALSE]

JSON_clear_invoices_io(file, fault) ==
    IF fault = "none"
    THEN [file |-> JSON_clear_invoices(file).file,
          ok |-> JSON_clear_invoices(file).ok, escaped |-> FALSE]
    ELSE [file |-> JSON_write_data_io(file, <<>>, fault),
          ok |-> FALSE, escaped |-> FALSE]

\* insert_many raises: the documents were stamped and given their _id
\* before the operation was sent
MongoSaveFailed(collection, invoices, ids, fault) ==
    [collection |-> IF fault = "reply"
                    THEN BulkInsert(collection, ids.invoices, 1).collection
                    ELSE collection,
     next_oid |-> ids.next_oid, invoices |-> ids.invoices,
     ok |-> FALSE, escaped |-> FALSE]

Mongo_save_invoices_io(collection, next_oid, invoices, now, fault) ==
    IF fault = "none" \/ invoices = <<>>
    THEN Mongo_save_invoices(collection, next_oid, invoices, now)
             @@ [escaped |-> FALSE]
    ELSE MongoSaveFailed(collection, invoices,
             AssignIds(StampCreatedAt(invoices, now), 1, next_oid), fault)

Mongo_clear_invoices_io(collection, fault) ==
    IF fault = "none"
    THEN Mongo_clear_invoices(collection) @@ [escaped |-> FALSE]
    ELSE [collection |-> IF fault = "reply" THEN <<>> ELSE collection,
          ok |-> FALSE, escaped |-> FALSE]

save_invoices_io(db, invoices, now, fault) ==
    IF db.database_type = "mongodb"
    THEN LET r == Mongo_save_invoices_io(db.collection, db.next_oid, invoices,
                                         now, fault)
         IN [db |-> [db EXCEPT !.collection = r.collection, !.next_oid = r.next_oid],
             invoices |-> r.invoices, ok |-> r.ok, escaped |-> r.escaped]
    ELSE LET r == JSON_save_invoices_io(db.file, invoices, fault)
         IN [db |-> [db EXCEPT !.file = r.file], invoices |-> invoices,
             ok |-> r.ok, escaped |-> r.escaped]

clear_invoices_io(db, fault) ==
    IF db.database_type = "mongodb"
    THEN LET r == Mongo_clear_invoices_io(db.collection, fault)
         IN [db |-> [db EXCEPT !.collection = r.collection], ok |-> r.ok,
             escaped |-> r.escaped]
    ELSE LET r == JSON_clear_invoices_io(db.file, fault)
         IN [db |-> [db EXCEPT !.file = r.file], ok |-> r.ok,
             escaped |-> r.escaped]

(***************************************************************************)
(* Pagination of the stored-list handler.                                  *)
(***************************************************************************)
\* integer division instead of the ceiling
Ceil_floor(total, page_size) == total \div page_size

\* math.ceil(total / page_size) for total >= 0, page_size >= 1
Ceil(total, page_size) ==
    IF total % page_size = 0 THEN total \div page_size
    ELSE total \div page_size + 1

\* the methods the two backend classes define
BackendMethods(database_type) ==
    {"save_invoices", "get_all_invoices", "get_invoice_count",
     "clear_invoices", "close"}

\* listPage(offset, limit) as the design describes it: a slice of the
\* stored sequence
get_paginated_invoices(db, skip, limit) ==
    LET all == get_all_invoices(db)
        last == IF skip + limit < Len(all) THEN skip + limit ELSE Len(all)
    IN SubSeq(all, skip + 1, last)

(***************************************************************************)
(* The random draws of one iteration of generate_batch.                    *)
(***************************************************************************)
BaseDraw ==
    [dup |-> 999, pick |-> 0,
     base_amount |-> 125050, amt |-> 999, amt_type |-> 0, amt_text |-> 0,
     cur |-> 999, cur_pick |-> 0,
     inc_id |-> 999, inc_amt |-> 999, inc_status |-> 999, status_pick |-> 0,
     drift |-> 999, due |-> 999, proj |-> 999, tax |-> 999, appr |-> 999,
     items |-> 999,
     due_date |-> "2024-07-01", proj_letter |-> 0, proj_digit |-> 7,
     approver |-> "amy@example.org",
     line_draws |-> <<[word |-> "Table", quantity |-> 3, rate |-> 4999]>>,
     date |-> "2024-05-02", company |-> "Smith Ltd", suffix |-> 0,
     subj |-> 0, subj_letter |-> 0, body |-> 0, sender |-> "bob@example.com",
     dt |-> 999, dt_type |-> 0,
     base_date |-> [Y |-> "2024", m |-> "05", d |-> "17",
                    H |-> "10", M |-> "30", S |-> "05"]]

\* the draws of the records the requests generate: at the default rate a
\* record with no invoice_id and no status, a null amount, a null
\* received_at and the drift fields tax_amount and line_items
MixedDraw ==
    [BaseDraw EXCEPT !.amt = 0, !.amt_type = 600, !.inc_id = 0,
                     !.inc_status = 0, !.drift = 0, !.tax = 0, !.items = 0,
                     !.dt = 0, !.dt_type = 750, !.body = 200]

Profiles == {MixedDraw}

Unit == {0, 999}

\* an iteration draws either no duplicate and a profile, or a duplicate and
\* the record to repeat
IterDraws ==
    {[p EXCEPT !.dup = 999] : p \in Profiles}
        \cup {[p EXCEPT !.dup = 0, !.pick = k] : p \in Profiles, k \in Unit}

Rates == {0, 300, 1000}          \* inconsistency rates of a generator
DefaultInconsistencyRate == 300  \* InvoiceGenerator() of the module
DuplicateRates == {0, 100, 1000} \* settings.duplicate_rate
UtcNow == {1234567}              \* datetime.utcnow(), in microseconds

(***************************************************************************)
(* The user table of app/db/users.py.  A stored hash is modelled by the    *)
(* password it was made from: pwd_context.verify(p, hash(q)) is p = q.     *)
(***************************************************************************)
PwdHash(password) == [bcrypt |-> password]

DefaultUsers ==
    [u \in {"admin", "candidate"} |->
        IF u = "admin"
        THEN [username |-> "admin", email |-> "admin@example.com",
              full_name |-> "System Administrator", role |-> "admin",
              disabled |-> FALSE, hashed_password |-> PwdHash("admin123")]
        ELSE [username |-> "candidate", email |-> "candidate@example.com",
              full_name |-> "Test Candidate", role |-> "candidate",
              disabled |-> FALSE, hashed_password |-> PwdHash("test123")]]

\* no request is in flight
NoTasks == <<>>

(***************************************************************************)
(* Bearer tokens.  An Authorization header is [scheme]; with the scheme    *)
(* "Bearer" it carries a text that is a JWT or not, and a JWT is modelled  *)
(* by the key that signed it and its payload.  Time is in seconds.         *)
(***************************************************************************)
SecretKey == "your-secret-key-change-this-in-production-min-32-chars"

access_token_expire_minutes == 60

Jwt(key, payload) == [scheme |-> "Bearer", jwt |-> TRUE, key |-> key,
                      payload |-> payload]

\* jwt.encode(to_encode, SECRET_KEY) with exp and iat added
create_access_token(data, expires_delta, now) ==
    Jwt(SecretKey, data @@ [exp |-> now + expires_delta, iat |-> now])

RequestTimes == {5000}           \* the clock when a request arrives

\* the payload login signs for a user
Claims(user) ==
    [sub |-> user.username, role |-> user.role, email |-> user.email]

\* the headers requests arrive with at time now: none, a text that is no
\* JWT, a token signed with another key, the tokens the login issued to
\* admin just now and an hour and a second ago and to candidate an hour
\* ago, and tokens signed with the key that lack sub or exp
Credentials(now) ==
    {[scheme |-> "none"],
     [scheme |-> "Bearer", jwt |-> FALSE],
     Jwt("another-key", Claims(DefaultUsers["admin"]) @@ [exp |-> now + 60]),
     create_access_token(Claims(DefaultUsers["admin"]),
                         access_token_expire_minutes * 60, now),
     create_access_token(Claims(DefaultUsers["admin"]),
                         access_token_expire_minutes * 60,
                         now - (access_token_expire_minutes * 60 + 1)),
     create_access_token(Claims(DefaultUsers["candidate"]),
                         access_token_expire_minutes * 60,
                         now - access_token_expire_minutes * 60),
     Jwt(SecretKey, [role |-> "admin", exp |-> now + 60]),
     Jwt(SecretKey, [sub |-> "admin", role |-> "admin"])}

\* the statuses HTTPBearer() answers with when the header is missing or of
\* another scheme (403, or 401 from the framework version on); no version
\* is pinned
HTTPBearer(authorization) ==
    IF authorization.scheme = "Bearer" THEN {200} ELSE {401, 403}

\* the expiry is not checked
jwt_decode_ignores_exp(token, key, now) ==
    IF token.jwt /\ token.key = key
    THEN [ok |-> TRUE, payload |-> token.payload]
    ELSE [ok |-> FALSE]

\* jose.jwt.decode: the signature, then exp when the payload has one
jwt_decode(token, key, now) ==
    IF /\ token.jwt
       /\ token.key = key
       /\ "exp" \in DOMAIN token.payload => token.payload.exp >= now
    THEN [ok |-> TRUE, payload |-> token.payload]
    ELSE [ok |-> FALSE]

verify_token(token, now) ==
    IF jwt_decode(token, SecretKey, now).ok
    THEN [status |-> 200, payload |-> jwt_decode(token, SecretKey, now).payload]
    ELSE [status |-> 401, detail |-> "Could not validate credentials"]

verify_api_key_header(token, now) ==
    IF verify_token(token, now).status = 200
    THEN [status |-> 200]
    ELSE [status |-> 401, detail |-> "Invalid or expired token"]

get_current_user(token, now) ==
    IF verify_token(token, now).status # 200
    THEN verify_token(token, now)
    ELSE IF "sub" \notin DOMAIN verify_token(token, now).payload
         THEN [status |-> 401, detail |-> "Could not validate credentials"]
         ELSE verify_token(token, now)

\* the role is not looked at
get_current_admin_any_role(current_user) == current_user

get_current_admin(current_user) ==
    IF current_user.status # 200
    THEN current_user
    ELSE IF DictGet(current_user.payload, "role", "None") # "admin"
         THEN [status |-> 403, detail |-> "Admin access required"]
         ELSE current_user

\* the existing entry is replaced
create_user_overwrites(users, username, password, email, full_name, role) ==
    [users |-> [u \in DOMAIN users \cup {username} |->
                   IF u = username
                   THEN [username |-> username, email |-> email,
                         full_name |-> full_name, role |-> role,
                         disabled |-> FALSE,
                         hashed_password |-> PwdHash(password)]
                   ELSE users[u]],
     raised |-> FALSE]

\* create_user: the table it leaves and whether ValueError was raised
create_user(users, username, password, email, full_name, role) ==
    IF username \in DOMAIN users
    THEN [users |-> users, raised |-> TRUE]
    ELSE [users |-> [u \in DOMAIN users \cup {username} |->
                        IF u = username
                        THEN [username |-> username, email |-> email,
                              full_name |-> full_name, role |-> role,
                              disabled |-> FALSE,
                              hashed_password |-> PwdHash(password)]
                        ELSE users[u]],
          raised |-> FALSE]

\* pwd_context.verify(plain_password, hashed_password)
verify_password(plain_password, hashed_password) ==
    hashed_password = PwdHash(plain_password)

\* the disabled flag is not looked at
authenticate_user_ignores_disabled(users, username, password) ==
    IF username \notin DOMAIN users
    THEN [found |-> FALSE]
    ELSE IF ~verify_password(password, users[username].hashed_password)
         THEN [found |-> FALSE]
         ELSE [found |-> TRUE, user |-> users[username]]

\* authenticate_user: the user, or None
authenticate_user(users, username, password) ==
    IF username \notin DOMAIN users
    THEN [found |-> FALSE]
    ELSE IF ~verify_password(password, users[username].hashed_password)
         THEN [found |-> FALSE]
         ELSE IF users[username].disabled
              THEN [found |-> FALSE]
              ELSE [found |-> TRUE, user |-> users[username]]

\* the user tables the service runs on: the one of the module, and one in
\* which the candidate was disabled
UserTables ==
    {DefaultUsers, [DefaultUsers EXCEPT !["candidate"].disabled = TRUE]}

\* User(...) built from a UserInDB: the record without hashed_password
User(u) == [username |-> u.username, email |-> u.email,
            full_name |-> u.full_name, role |-> u.role,
            disabled |-> u.disabled]

(***************************************************************************)
(* State.                                                                  *)
(***************************************************************************)
VARIABLES
    inconsistency_rate,   \* generator.inconsistency_rate
    duplicate_rate,       \* settings.duplicate_rate
    message_counter,      \* generator.message_counter
    invoice_counter,      \* generator.invoice_counter
    generated_messages,   \* generator.generated_messages
    database_type,        \* settings.database_type
    file,                 \* text of the JSON file
    collection,           \* documents of the MongoDB collection
    next_oid,             \* ObjectIds generated so far + 1
    resp,                 \* the response to the last request, with the
                          \* handler's locals
    emitted_ids,          \* message ids of the records emitted so far
    repeated,             \* some emitted record carried a message id that
                          \* an earlier emitted record carried
    users_db,             \* app.db.users._users_db
    tasks                 \* the requests in flight on the event loop, each
                          \* with its position and its locals

vars == <<inconsistency_rate, duplicate_rate, message_counter, invoice_counter,
          generated_messages, database_type, file, collection, next_oid,
          resp, emitted_ids, repeated, users_db, tasks>>

genVars == <<message_counter, invoice_counter, generated_messages,
             emitted_ids, repeated>>
dbVars == <<file, collection, next_oid>>
cfgVars == <<inconsistency_rate, duplicate_rate, database_type>>
authVars == <<users_db>>
taskVars == <<tasks>>

Gen == [message_counter |-> message_counter,
        invoice_counter |-> invoice_counter,
        generated_messages |-> generated_messages]

Db == [database_type |-> database_type, file |-> file,
       collection |-> collection, next_oid |-> next_oid]

Range(seq) == {seq[i] : i \in 1..Len(seq)}

NoResponse == [op |-> "none", status |-> 0]

Init ==
    /\ inconsistency_rate = DefaultInconsistencyRate
    /\ duplicate_rate \in DuplicateRates
    /\ message_counter = NewGenerator.message_counter
    /\ invoice_counter = NewGenerator.invoice_counter
    /\ generated_messages = NewGenerator.generated_messages
    /\ database_type \in {"json", "mongodb"}
    /\ file = NewDatabase(database_type).file
    /\ collection = NewDatabase(database_type).collection
    /\ next_oid = NewDatabase(database_type).next_oid
    /\ resp = NoResponse
    /\ emitted_ids = {}
    /\ repeated = FALSE
    /\ users_db = DefaultUsers
    /\ tasks = NoTasks

(***************************************************************************)
(* Request handlers of app/api/invoices.py.  Each handler runs on the      *)
(* event loop from its first statement to its response.                    *)
(***************************************************************************)
\* Query(ge=..., le=...) and Query(ge=...): the constraints the framework
\* checks before it calls the handler
QueryInRange_unchecked_below(value, ge, le) == value <= le

QueryInRange(value, ge, le) == value >= ge /\ value <= le

QueryAtLeast(value, ge) == value >= ge

GenerateMaxCount == 20
SeedMaxCount == 1000
PageSizeLimit == 500
min_invoices_per_request == 2
max_invoices_per_request == 5

Emails(batch) == [i \in 1..Len(batch) |-> batch[i].email]

MessageIds(batch) == [i \in 1..Len(batch) |-> batch[i].email.message_id.v]

\* generated_messages after a callee changed the dicts of the batch: a
\* fresh record of the batch is the very object the history holds
WriteBack(history, batch, after) ==
    [k \in 1..Len(history) |->
        IF \E i \in 1..Len(batch) : batch[i].h = k
        THEN after[CHOOSE i \in 1..Len(batch) : batch[i].h = k]
        ELSE history[k]]

RepeatsIn(ids, seen) ==
    \E i \in 1..Len(ids) :
        ids[i] \in seen \/ \E j \in 1..(i - 1) : ids[j] = ids[i]

WithinBounds(g, db) ==
    /\ Len(g.generated_messages) <= MaxHistory
    /\ get_invoice_count(db) <= MaxStored
    /\ db.next_oid <= MaxOid + 1

\* the response and the state a generate or seed request leaves, from what
\* generate_batch (gb) and save_invoices (sv) returned; extra holds the
\* other locals of the request
BatchResponse(op, count, store, gb, sv, extra) ==
    /\ WithinBounds(gb.g, sv.db)
    /\ message_counter' = gb.g.message_counter
    /\ invoice_counter' = gb.g.invoice_counter
    /\ generated_messages' =
           WriteBack(gb.g.generated_messages, gb.batch, sv.invoices)
    /\ file' = sv.db.file
    /\ collection' = sv.db.collection
    /\ next_oid' = sv.db.next_oid
    /\ emitted_ids' = emitted_ids \cup Range(MessageIds(gb.batch))
    /\ repeated' = (repeated \/ RepeatsIn(MessageIds(gb.batch), emitted_ids))
    /\ resp' = [op |-> op, requested |-> count, store |-> store,
                batch |-> gb.batch, handed |-> Emails(gb.batch),
                data |-> sv.invoices,
                \* if not success: raise HTTPException(status_code=500)
                status |-> IF sv.ok THEN 200 ELSE 500,
                count |-> IF op = "seed" THEN count ELSE Len(sv.invoices)]
                   @@ extra

GenerateResponse(op, count, store, gb, sv) ==
    BatchResponse(op, count, store, gb, sv, [ok |-> sv.ok])

StoreBatch(op, count, store, gb, now) ==
    GenerateResponse(op, count, store, gb,
        IF store THEN save_invoices(Db, Emails(gb.batch), now)
        ELSE [db |-> Db, invoices |-> Emails(gb.batch), ok |-> TRUE])

\* generate_batch and, when asked for, save_invoices, as get_invoices and
\* seed_database both do
GenerateThenStore(op, count, store, ds, now) ==
    StoreBatch(op, count, store,
        generate_batch(Gen, inconsistency_rate, duplicate_rate, ds), now)

\* a request whose count fails the Query constraints is answered by the
\* framework; the handler is not called
Rejected(op, status, count) ==
    /\ resp' = [op |-> op, status |-> status, requested |-> count]
    /\ UNCHANGED <<genVars, dbVars>>

\* GET /invoices
get_invoices ==
    /\ \E store \in BOOLEAN, now \in UtcNow :
       \* count as the request gives it or, when it gives none, as
       \* random.randint(min, max) draws it
       \E count \in (0..MaxCount) \cup {GenerateMaxCount + 1} \cup
                    {n \in min_invoices_per_request..max_invoices_per_request :
                         n <= MaxCount} :
          IF ~QueryInRange(count, 1, GenerateMaxCount)
          THEN Rejected("generate", 422, count)
          ELSE \E ds \in [1..count -> IterDraws] :
                   GenerateThenStore("generate", count, store, ds, now)
    /\ UNCHANGED <<cfgVars, authVars, taskVars>>

\* POST /invoices/seed
seed_database ==
    /\ \E count \in (0..MaxCount) \cup {SeedMaxCount + 1}, now \in UtcNow :
          IF ~QueryInRange(count, 1, SeedMaxCount)
          THEN Rejected("seed", 422, count)
          ELSE \E ds \in [1..count -> IterDraws] :
                   GenerateThenStore("seed", count, TRUE, ds, now)
    /\ UNCHANGED <<cfgVars, authVars, taskVars>>

\* what get_stored_invoices answers to a request that passed the Query
\* constraints
StoredListResponse(page, page_size) ==
    LET total == get_invoice_count(Db)
        skip == (page - 1) * page_size
        total_pages == IF total > 0 THEN Ceil(total, page_size) ELSE 1
        locals == [op |-> "stored", page |-> page,
                   page_size |-> page_size, total |-> total,
                   skip |-> skip, total_pages |-> total_pages]
    IN IF page > total_pages /\ total > 0
       THEN locals @@ [status |-> 400, page_reads |-> 0]
       ELSE IF "get_paginated_invoices" \in BackendMethods(database_type)
            THEN LET invoices == get_paginated_invoices(Db, skip, page_size)
                 IN locals @@
                        [status |-> 200, page_reads |-> 1,
                         data |-> invoices, count |-> Len(invoices),
                         has_next |-> page < total_pages,
                         has_prev |-> page > 1]
            \* AttributeError, answered 500 by the framework
            ELSE locals @@ [status |-> 500, page_reads |-> 0]

\* GET /invoices/stored
get_stored_invoices ==
    /\ \E page \in 0..MaxPage, page_size \in 0..MaxPageSize :
          IF ~QueryAtLeast(page, 1) \/ ~QueryInRange(page_size, 1, PageSizeLimit)
          THEN resp' = [op |-> "stored", status |-> 422]
          ELSE resp' = StoredListResponse(page, page_size)
    /\ UNCHANGED <<genVars, dbVars, cfgVars, authVars, taskVars>>

\* DELETE /invoices/stored
clear_stored_invoices ==
    /\ LET r == clear_invoices(Db)
       IN /\ file' = r.db.file
          /\ collection' = r.db.collection
          /\ next_oid' = r.db.next_oid
          /\ resp' = [op |-> "clear", ok |-> r.ok,
                      after_clear |-> (resp.op = "clear"),
                      status |-> IF r.ok THEN 200 ELSE 500]
    /\ UNCHANGED <<genVars, cfgVars, authVars, taskVars>>

\* GET /invoices/stats
get_invoice_stats ==
    /\ resp' = [op |-> "stats", status |-> 200,
                total_invoices |-> get_invoice_count(Db),
                database_type |-> database_type]
    /\ UNCHANGED <<genVars, dbVars, cfgVars, authVars, taskVars>>

\* a direct call of the storage interface with the batch no handler
\* passes: db.save_invoices([])
SaveBatches == {<<>>}

call_save_invoices ==
    /\ \E invoices \in SaveBatches, now \in UtcNow :
          LET sv == save_invoices(Db, invoices, now)
          IN /\ WithinBounds(Gen, sv.db)
             /\ file' = sv.db.file
             /\ collection' = sv.db.collection
             /\ next_oid' = sv.db.next_oid
             /\ resp' = [op |-> "save", store |-> TRUE, handed |-> invoices,
                         data |-> sv.invoices, ok |-> sv.ok,
                         status |-> IF sv.ok THEN 200 ELSE 500]
    /\ UNCHANGED <<genVars, cfgVars, authVars, taskVars>>

Next ==
    \/ get_invoices
    \/ seed_database
    \/ get_stored_invoices
    \/ clear_stored_invoices
    \/ get_invoice_stats
    \/ call_save_invoices

Spec == Init /\ [][Next]_vars

(***************************************************************************)
(* The generator as a library: one instance built with any inconsistency   *)
(* rate, its first fresh record under every combination of the draws that  *)
(* decide a field, and duplicates of it.                                   *)
(***************************************************************************)
FieldDraws ==
    {[BaseDraw EXCEPT !.amt = a, !.amt_type = at, !.cur = c, !.cur_pick = cp,
                      !.inc_id = ii, !.inc_amt = ia, !.inc_status = st,
                      !.drift = dr, !.tax = dr, !.items = dr, !.due = dr,
                      !.dt = dt, !.dt_type = dtt] :
        a \in Unit, at \in {0, 200, 400, 600, 800}, c \in Unit,
        cp \in {0, 800}, ii \in Unit, ia \in Unit, st \in Unit, dr \in Unit,
        dt \in Unit, dtt \in {0, 250, 500, 750}}

InitFields ==
    /\ inconsistency_rate \in Rates
    /\ duplicate_rate = 1000
    /\ message_counter = NewGenerator.message_counter
    /\ invoice_counter = NewGenerator.invoice_counter
    /\ generated_messages = NewGenerator.generated_messages
    /\ database_type = "json"
    /\ file = NewDatabase(database_type).file
    /\ collection = NewDatabase(database_type).collection
    /\ next_oid = NewDatabase(database_type).next_oid
    /\ resp = NoResponse
    /\ emitted_ids = {}
    /\ repeated = FALSE
    /\ users_db = DefaultUsers
    /\ tasks = NoTasks

EmailResponse(force_duplicate, e, d) ==
    /\ message_counter' = e.g.message_counter
    /\ invoice_counter' = e.g.invoice_counter
    /\ generated_messages' = e.g.generated_messages
    /\ emitted_ids' = emitted_ids \cup {e.email.message_id.v}
    /\ repeated' = (repeated \/ e.email.message_id.v \in emitted_ids)
    /\ resp' = [op |-> "email", status |-> 200,
                force_duplicate |-> force_duplicate, drawn |-> d,
                batch |-> <<[email |-> e.email, h |-> e.h]>>]

\* generator.generate_email_invoice(force_duplicate) called directly
call_generate_email_invoice(force_duplicate, draws) ==
    /\ \E d \in draws :
          EmailResponse(force_duplicate,
              generate_email_invoice(Gen, inconsistency_rate, force_duplicate, d),
              d)
    /\ UNCHANGED <<dbVars, cfgVars, authVars, taskVars>>

FirstRecord ==
    /\ generated_messages = <<>>
    /\ call_generate_email_invoice(FALSE, FieldDraws)

DuplicateRecord ==
    /\ generated_messages # <<>>
    /\ call_generate_email_invoice(TRUE, {BaseDraw})

NextFields == FirstRecord \/ DuplicateRecord

SpecFields == InitFields /\ [][NextFields]_vars

(***************************************************************************)
(* Requests in flight.  The handlers are coroutines of one event loop: a   *)
(* coroutine keeps the loop until it awaits something that suspends it.    *)
(* tasks.reqs[p] is the request p with its position pc and its locals,     *)
(* tasks.running the request that holds the loop (0: none).  The steps are *)
(* the statements of seed_database / get_invoices, generate_batch,         *)
(* generate_email_invoice, generate_message_id and save_invoices.          *)
(***************************************************************************)
TaskIds == 1..2

\* the positions at which a coroutine gives up the loop: the end of the
\* handler and, on the document store, await self.collection.insert_many;
\* JSONDatabase.save_invoices awaits nothing
SuspensionPoints_between_read_and_write(db_type) ==
    IF db_type = "mongodb" THEN {"insert", "done"} ELSE {"write", "done"}

SuspensionPoints_inside_message_id(db_type) ==
    IF db_type = "mongodb" THEN {"incr", "insert", "done"} ELSE {"incr", "done"}

SuspensionPoints(db_type) ==
    IF db_type = "mongodb" THEN {"insert", "done"} ELSE {"done"}

NewTask(op, store, count) ==
    [op |-> op, store |-> store, count |-> count, pc |-> "start", i |-> 0,
     batch |-> <<>>, msg_id |-> "", email |-> EmptyDict,
     existing_data |-> <<>>, invoices |-> <<>>, ok |-> TRUE]

\* the requests two clients send at the same time
TaskSets ==
    {r \in [TaskIds -> {NewTask(op, store, count) :
                            op \in {"generate", "seed"}, store \in BOOLEAN,
                            count \in 1..MaxCount}] :
        /\ \A p \in TaskIds : r[p].op = "seed" => r[p].store
        /\ r[1].count + r[2].count <= MaxHistory
        /\ r[1].count + r[2].count <= MaxStored
        /\ r[1].count + r[2].count <= MaxOid}

InitAsync ==
    /\ inconsistency_rate = DefaultInconsistencyRate
    /\ duplicate_rate \in DuplicateRates
    /\ message_counter = NewGenerator.message_counter
    /\ invoice_counter = NewGenerator.invoice_counter
    /\ generated_messages = NewGenerator.generated_messages
    /\ database_type \in {"json", "mongodb"}
    /\ file = NewDatabase(database_type).file
    /\ collection = NewDatabase(database_type).collection
    /\ next_oid = NewDatabase(database_type).next_oid
    /\ resp = NoResponse
    /\ emitted_ids = {}
    /\ repeated = FALSE
    /\ users_db = DefaultUsers
    /\ tasks \in {[running |-> 0, reqs |-> r] : r \in TaskSets}

\* request p may take a step: it holds the loop, or nobody does
Scheduled(p) ==
    /\ tasks.running \in {0, p}
    /\ tasks.reqs[p].pc # "done"

\* request p goes on as t; it gives up the loop at a suspension point
Continue(p, t) ==
    tasks' = [running |-> IF t.pc \in SuspensionPoints(database_type)
                          THEN 0 ELSE p,
              reqs |-> [tasks.reqs EXCEPT ![p] = t]]

\* the handler is entered: batch = []
HandlerStart(p) ==
    /\ Scheduled(p)
    /\ tasks.reqs[p].pc = "start"
    /\ Continue(p, [tasks.reqs[p] EXCEPT !.pc = "iter", !.i = 1, !.batch = <<>>])
    /\ UNCHANGED <<genVars, dbVars, cfgVars, authVars, resp>>

\* for _ in range(count) has run out: generate_batch returns and the
\* handler stores the batch or answers
LoopEnd(p) ==
    /\ Scheduled(p)
    /\ tasks.reqs[p].pc = "iter"
    /\ tasks.reqs[p].i > tasks.reqs[p].count
    /\ Continue(p, [tasks.reqs[p] EXCEPT
                       !.pc = IF ~tasks.reqs[p].store THEN "done"
                              ELSE IF database_type = "mongodb" THEN "stamp"
                              ELSE "read"])
    /\ UNCHANGED <<genVars, dbVars, cfgVars, authVars, resp>>

\* an iteration that returns a duplicate: random.choice(history).copy()
LoopDuplicate(p) ==
    /\ Scheduled(p)
    /\ tasks.reqs[p].pc = "iter"
    /\ tasks.reqs[p].i <= tasks.reqs[p].count
    /\ \E dup \in Unit, pick \in Unit :
          /\ dup < duplicate_rate /\ Len(generated_messages) > 0
          /\ Continue(p, [tasks.reqs[p] EXCEPT
                 !.i = @ + 1,
                 !.batch = Append(@, [email |-> Choice(generated_messages, pick),
                                      h |-> 0])])
    /\ UNCHANGED <<genVars, dbVars, cfgVars, authVars, resp>>

\* an iteration that generates a record: generate_email_invoice is entered
LoopFresh(p) ==
    /\ Scheduled(p)
    /\ tasks.reqs[p].pc = "iter"
    /\ tasks.reqs[p].i <= tasks.reqs[p].count
    /\ \E dup \in Unit : ~(dup < duplicate_rate /\ Len(generated_messages) > 0)
    /\ Continue(p, [tasks.reqs[p] EXCEPT !.pc = "msgid"])
    /\ UNCHANGED <<genVars, dbVars, cfgVars, authVars, resp>>

\* msg_id = f"msg_{self.message_counter:03d}"
FormatMessageId(p) ==
    /\ Scheduled(p)
    /\ tasks.reqs[p].pc = "msgid"
    /\ Continue(p, [tasks.reqs[p] EXCEPT
                       !.pc = "incr",
                       !.msg_id = "msg_" \o Pad3(message_counter)])
    /\ UNCHANGED <<genVars, dbVars, cfgVars, authVars, resp>>

\* self.message_counter += 1
AdvanceMessageCounter(p) ==
    /\ Scheduled(p)
    /\ tasks.reqs[p].pc = "incr"
    /\ message_counter' = message_counter + 1
    /\ Continue(p, [tasks.reqs[p] EXCEPT !.pc = "build"])
    /\ UNCHANGED <<invoice_counter, generated_messages, emitted_ids, repeated,
                   dbVars, cfgVars, authVars, resp>>

BuiltEmail(p, inv) ==
    /\ invoice_counter' = inv.g.invoice_counter
    /\ Continue(p, [tasks.reqs[p] EXCEPT
                       !.pc = "append",
                       !.email = EmailMessage([out |-> tasks.reqs[p].msg_id], inv,
                                              inconsistency_rate, MixedDraw)])

\* invoice_data = self.generate_invoice_data() ... email_message = {...}
BuildEmail(p) ==
    /\ Scheduled(p)
    /\ tasks.reqs[p].pc = "build"
    /\ BuiltEmail(p, generate_invoice_data(Gen, inconsistency_rate, FALSE, MixedDraw))
    /\ UNCHANGED <<message_counter, generated_messages, emitted_ids, repeated,
                   dbVars, cfgVars, authVars, resp>>

\* self.generated_messages.append(email_message); batch.append(email)
AppendEmail(p) ==
    /\ Scheduled(p)
    /\ tasks.reqs[p].pc = "append"
    /\ generated_messages' = Append(generated_messages, tasks.reqs[p].email)
    /\ Continue(p, [tasks.reqs[p] EXCEPT
                       !.pc = "iter", !.i = @ + 1,
                       !.batch = Append(@, [email |-> tasks.reqs[p].email,
                                            h |-> Len(generated_messages) + 1])])
    /\ UNCHANGED <<message_counter, invoice_counter, emitted_ids, repeated,
                   dbVars, cfgVars, authVars, resp>>

\* JSONDatabase.save_invoices: existing_data = self._read_data()
ReadData(p) ==
    /\ Scheduled(p)
    /\ tasks.reqs[p].pc = "read"
    /\ Continue(p, [tasks.reqs[p] EXCEPT
                       !.pc = "write", !.existing_data = JSON_read_data(file)])
    /\ UNCHANGED <<genVars, dbVars, cfgVars, authVars, resp>>

\* existing_data.extend(invoices); self._write_data(existing_data)
WriteData(p) ==
    /\ Scheduled(p)
    /\ tasks.reqs[p].pc = "write"
    /\ file' = JSON_write_data(tasks.reqs[p].existing_data
                                  \o Emails(tasks.reqs[p].batch))
    /\ Continue(p, [tasks.reqs[p] EXCEPT
                       !.pc = "done", !.ok = TRUE,
                       !.invoices = Emails(tasks.reqs[p].batch)])
    /\ UNCHANGED <<genVars, collection, next_oid, cfgVars, authVars, resp>>

\* MongoDatabase.save_invoices: the _created_at loop, up to the await
StampBatch(p) ==
    /\ Scheduled(p)
    /\ tasks.reqs[p].pc = "stamp"
    /\ \E now \in UtcNow :
          LET stamped == StampCreatedAt(Emails(tasks.reqs[p].batch), now)
          IN /\ generated_messages' =
                    WriteBack(generated_messages, tasks.reqs[p].batch, stamped)
             /\ Continue(p, [tasks.reqs[p] EXCEPT
                                !.pc = "insert", !.invoices = stamped])
    /\ UNCHANGED <<message_counter, invoice_counter, emitted_ids, repeated,
                   dbVars, cfgVars, authVars, resp>>

Inserted(p, ids, ins) ==
    /\ collection' = ins.collection
    /\ next_oid' = ids.next_oid
    /\ generated_messages' =
           WriteBack(generated_messages, tasks.reqs[p].batch, ids.invoices)
    /\ Continue(p, [tasks.reqs[p] EXCEPT
                       !.pc = "done", !.invoices = ids.invoices,
                       !.ok = ~ins.raised])

WithIds(p, ids) ==
    Inserted(p, ids, BulkInsert(collection, ids.invoices, 1))

\* the insert_many the coroutine awaited
InsertMany(p) ==
    /\ Scheduled(p)
    /\ tasks.reqs[p].pc = "insert"
    /\ WithIds(p, AssignIds(tasks.reqs[p].invoices, 1, next_oid))
    /\ UNCHANGED <<message_counter, invoice_counter, emitted_ids, repeated,
                   file, cfgVars, authVars, resp>>

NextAsync ==
    \E p \in TaskIds :
        \/ HandlerStart(p)
        \/ LoopEnd(p)
        \/ LoopDuplicate(p)
        \/ LoopFresh(p)
        \/ FormatMessageId(p)
        \/ AdvanceMessageCounter(p)
        \/ BuildEmail(p)
        \/ AppendEmail(p)
        \/ ReadData(p)
        \/ WriteData(p)
        \/ StampBatch(p)
        \/ InsertMany(p)

SpecAsync == InitAsync /\ [][NextAsync]_vars

(***************************************************************************)
(* The store requests while the storage may fail.                          *)
(***************************************************************************)
\* the draws of a batch of the fault runs: no duplicate is drawn unless the
\* duplicate rate is 1
PlainDraws(count) == [i \in 1..count |-> [MixedDraw EXCEPT !.dup = 999]]

\* the draws of a batch in which any iteration may draw a duplicate
DuplicateOrNot(count) ==
    [1..count -> {[MixedDraw EXCEPT !.dup = 999], [MixedDraw EXCEPT !.dup = 0]}]

FaultyStore(op, count, gb, sv, fault) ==
    BatchResponse(op, count, TRUE, gb, sv,
                  [ok |-> sv.ok, escaped |-> sv.escaped, fault |-> fault,
                   unreadable |-> ~IsJson(file)])

\* GET /invoices?store=true and POST /invoices/seed while the storage may
\* fail
store_request_io ==
    /\ \E op \in {"generate", "seed"}, count \in 1..MaxCount, now \in UtcNow,
          fault \in {"none"} \cup SaveFaults(database_type) :
       \E ds \in DuplicateOrNot(count) :
          FaultyStore(op, count,
              generate_batch(Gen, inconsistency_rate, duplicate_rate, ds),
              save_invoices_io(Db,
                  Emails(generate_batch(Gen, inconsistency_rate, duplicate_rate,
                                        ds).batch),
                  now, fault),
              fault)
    /\ UNCHANGED <<cfgVars, authVars, taskVars>>

\* the response and the state a clear request leaves, from what
\* clear_invoices (r) returned
ClearResponse(r, extra) ==
    /\ file' = r.db.file
    /\ collection' = r.db.collection
    /\ next_oid' = r.db.next_oid
    /\ resp' = [op |-> "clear", ok |-> r.ok,
                after_clear |-> (resp.op = "clear"),
                status |-> IF r.ok THEN 200 ELSE 500] @@ extra

\* DELETE /invoices/stored while the storage may fail
clear_request_io ==
    /\ \E fault \in {"none"} \cup ClearFaults(database_type) :
          ClearResponse(clear_invoices_io(Db, fault),
              [escaped |-> clear_invoices_io(Db, fault).escaped,
               fault |-> fault])
    /\ UNCHANGED <<genVars, cfgVars, authVars, taskVars>>

\* the data file is removed while the service runs (the constructor has
\* created it, nothing creates it again before the next write)
file_removed ==
    /\ database_type = "json"
    /\ file.j # "missing"
    /\ file' = MissingFile
    /\ resp' = [op |-> "removed", status |-> 0]
    /\ UNCHANGED <<collection, next_oid, genVars, cfgVars, authVars, taskVars>>

NextFaults == store_request_io \/ clear_request_io \/ file_removed

SpecFaults == Init /\ [][NextFaults]_vars

(***************************************************************************)
(* The requests with their Authorization header.  The dependencies of a    *)
(* route are solved before its handler is called and before a request      *)
(* that fails the Query constraints is answered.                           *)
(***************************************************************************)
enable_auth == TRUE

\* the locals of the dependency that the response record keeps
Bearer(cred, now) == [credentials |-> cred, at |-> now]

\* answered by a dependency: the handler is not called
Unauthorized(op, status, cred, now) ==
    /\ resp' = [op |-> op, status |-> status] @@ Bearer(cred, now)
    /\ UNCHANGED <<genVars, dbVars, authVars>>

\* Depends(verify_api_key_header) if settings.enable_auth, then handler
Authenticated(op, cred, now, handler) ==
    IF ~enable_auth
    THEN handler
    ELSE IF HTTPBearer(cred) # {200}
         THEN \E status \in HTTPBearer(cred) : Unauthorized(op, status, cred, now)
         ELSE IF verify_api_key_header(cred, now).status # 200
              THEN Unauthorized(op, verify_api_key_header(cred, now).status,
                                cred, now)
              ELSE handler

\* Depends(get_current_admin), then handler
AdminOnly(op, cred, now, handler) ==
    IF HTTPBearer(cred) # {200}
    THEN \E status \in HTTPBearer(cred) : Unauthorized(op, status, cred, now)
    ELSE IF get_current_admin(get_current_user(cred, now)).status # 200
         THEN Unauthorized(op, get_current_admin(get_current_user(cred, now)).status,
                           cred, now)
         ELSE handler

AuthorizedBatch(op, count, store, gb, sv, cred, now) ==
    BatchResponse(op, count, store, gb, sv, [ok |-> sv.ok] @@ Bearer(cred, now))

\* GET /invoices and POST /invoices/seed
authorized_generate ==
    /\ \E now \in RequestTimes, op \in {"generate", "seed"}, store \in BOOLEAN,
          count \in 0..1, utcnow \in UtcNow :
       \E cred \in Credentials(now) :
          /\ op = "seed" => store
          /\ Authenticated(op, cred, now,
                 IF ~QueryInRange(count, 1, IF op = "seed" THEN SeedMaxCount
                                            ELSE GenerateMaxCount)
                 THEN /\ resp' = [op |-> op, status |-> 422, requested |-> count]
                                     @@ Bearer(cred, now)
                      /\ UNCHANGED <<genVars, dbVars>>
                 ELSE AuthorizedBatch(op, count, store,
                          generate_batch(Gen, inconsistency_rate, duplicate_rate,
                                         PlainDraws(count)),
                          IF store
                          THEN save_invoices(Db,
                                   Emails(generate_batch(Gen, inconsistency_rate,
                                       duplicate_rate, PlainDraws(count)).batch),
                                   utcnow)
                          ELSE [db |-> Db, ok |-> TRUE,
                                invoices |-> Emails(generate_batch(Gen,
                                    inconsistency_rate, duplicate_rate,
                                    PlainDraws(count)).batch)],
                          cred, now))
    /\ UNCHANGED <<cfgVars, authVars, taskVars>>

\* GET /invoices/stored
authorized_stored ==
    /\ \E now \in RequestTimes, page \in 0..1 :
       \E cred \in Credentials(now) :
          Authenticated("stored", cred, now,
              resp' = (IF ~QueryAtLeast(page, 1)
                       THEN [op |-> "stored", status |-> 422]
                       ELSE StoredListResponse(page, 1)) @@ Bearer(cred, now))
    /\ UNCHANGED <<genVars, dbVars, cfgVars, authVars, taskVars>>

\* DELETE /invoices/stored
authorized_clear ==
    /\ \E now \in RequestTimes :
       \E cred \in Credentials(now) :
          Authenticated("clear", cred, now,
              ClearResponse(clear_invoices(Db), Bearer(cred, now)))
    /\ UNCHANGED <<genVars, cfgVars, authVars, taskVars>>

\* POST /auth/register
register_user ==
    /\ \E now \in RequestTimes, username \in {"admin", "newuser"},
          role \in {"candidate", "admin"} :
       \E cred \in Credentials(now) :
          AdminOnly("register", cred, now,
              LET r == create_user(users_db, username, "securepass123",
                                   "None", "None", role)
              IN /\ users_db' = r.users
                 /\ resp' = (IF r.raised
                             \* except ValueError: HTTPException(400)
                             THEN [op |-> "register", status |-> 400]
                             ELSE [op |-> "register", status |-> 200,
                                   user |-> User(r.users[username])])
                                @@ [username |-> username, role |-> role]
                                @@ Bearer(cred, now))
    /\ UNCHANGED <<genVars, dbVars, cfgVars, taskVars>>

\* GET /auth/users
list_users ==
    /\ \E now \in RequestTimes :
       \E cred \in Credentials(now) :
          AdminOnly("users", cred, now,
              /\ resp' = [op |-> "users", status |-> 200,
                          users |-> {User(users_db[u]) : u \in DOMAIN users_db}]
                             @@ Bearer(cred, now)
              /\ UNCHANGED users_db)
    /\ UNCHANGED <<genVars, dbVars, cfgVars, taskVars>>

\* POST /auth/token
login ==
    /\ \E now \in RequestTimes,
          username \in {"admin", "candidate", "newuser", "nobody"},
          password \in {"admin123", "test123", "securepass123"} :
          LET user == authenticate_user(users_db, username, password)
              request == [op |-> "login", username |-> username,
                          password |-> password, at |-> now]
          IN resp' = IF ~user.found
                     THEN request @@ [status |-> 401]
                     ELSE request @@
                            [status |-> 200, token_type |-> "bearer",
                             access_token |->
                                 create_access_token(Claims(user.user),
                                     access_token_expire_minutes * 60, now)]
    /\ UNCHANGED <<genVars, dbVars, cfgVars, authVars, taskVars>>

NextAuth ==
    \/ authorized_generate
    \/ authorized_stored
    \/ authorized_clear
    \/ register_user
    \/ list_users

\* the service as the default settings start it
InitAuth == Init /\ duplicate_rate = 100

SpecAuth == InitAuth /\ [][NextAuth]_vars

\* the user requests, on each of the user tables
NextUsers == login \/ register_user \/ list_users

InitUsers ==
    /\ inconsistency_rate = DefaultInconsistencyRate
    /\ duplicate_rate = 100
    /\ message_counter = NewGenerator.message_counter
    /\ invoice_counter = NewGenerator.invoice_counter
    /\ generated_messages = NewGenerator.generated_messages
    /\ database_type = "json"
    /\ file = NewDatabase(database_type).file
    /\ collection = NewDatabase(database_type).collection
    /\ next_oid = NewDatabase(database_type).next_oid
    /\ resp = NoResponse
    /\ emitted_ids = {}
    /\ repeated = FALSE
    /\ users_db \in UserTables
    /\ tasks = NoTasks

SpecUsers == InitUsers /\ [][NextUsers]_vars

(***************************************************************************)
(* Properties.                                                             *)
(***************************************************************************)
\* the keys the document-store backend writes into a record
StoreKeys == {"_id", "_created_at"}

\* C1: a generate or seed request that passes validation gets from
\* generate_batch a batch of exactly the requested number of records, and a
\* successful response reports that number as its count.
BatchHasRequestedLength ==
    (resp.op \in {"generate", "seed"} /\ resp.status # 422) =>
        /\ Len(resp.batch) = resp.requested
        /\ resp.status = 200 => resp.count = resp.requested

\* a batch of at least two records that holds a fresh record and a duplicate
BatchHasRequestedLengthWitness ==
    /\ resp.op \in {"generate", "seed"}
    /\ resp.status = 200
    /\ resp.requested >= 2
    /\ \E i, j \in 1..Len(resp.batch) : resp.batch[i].h = 0 /\ resp.batch[j].h > 0

\* C2: with duplicate_rate = 0 no record is ever emitted with a message id
\* that an earlier emitted record, of the same or of an earlier batch,
\* carried.
NoRepeatedMessageIdWithoutDuplicates ==
    duplicate_rate = 0 =>
        /\ ~repeated
        /\ \A i, j \in 1..Len(generated_messages) :
               generated_messages[i].message_id = generated_messages[j].message_id
                   => i = j

\* two records were emitted by two batches
NoRepeatedMessageIdWitness ==
    /\ duplicate_rate = 0
    /\ resp.op \in {"generate", "seed"}
    /\ resp.status # 422
    /\ Len(resp.batch) = 1
    /\ Cardinality(emitted_ids) >= 2

\* C3: a batch generated with duplicate_rate = 1 on a non-empty history
\* holds only records equal, key for key and value for value, to a record
\* the history held when the call began.
DuplicatesCopyEarlierRecords ==
    [][(/\ resp'.op \in {"generate", "seed"}
        /\ resp'.status # 422
        /\ duplicate_rate = 1000
        /\ generated_messages # <<>>)
          => \A i \in 1..Len(resp'.batch) :
                 \E k \in 1..Len(generated_messages) :
                     resp'.batch[i].email = generated_messages[k]]_vars

\* a batch made of duplicates only
DuplicatesCopyEarlierRecordsWitness ==
    /\ resp.op \in {"generate", "seed"}
    /\ resp.status # 422
    /\ duplicate_rate = 1000
    /\ Len(resp.batch) >= 1
    /\ \A i \in 1..Len(resp.batch) : resp.batch[i].h = 0

\* C4: every record the generator emits, fresh or duplicate, at every
\* inconsistency rate, has the keys date and vendor_name in its invoice
\* fields, and neither holds None.
DateAndVendorAlwaysPresent ==
    resp.op = "email" =>
        \A i \in 1..Len(resp.batch) :
            LET invoice_data == resp.batch[i].email.invoice_data.v
            IN /\ {"date", "vendor_name"} \subseteq DOMAIN invoice_data
               /\ invoice_data["date"] # PyNone
               /\ invoice_data["vendor_name"] # PyNone

\* a duplicate of a record in which the other core fields are all missing
DateAndVendorAlwaysPresentWitness ==
    /\ resp.op = "email"
    /\ resp.force_duplicate
    /\ inconsistency_rate = 1000
    /\ DOMAIN resp.batch[1].email.invoice_data.v = {"date", "vendor_name"}

\* C5 as claimed: after a successful save every record handed to it is an
\* element of listAll(), with the same keys and the same values.
SavedRecordsReadBackIdentical ==
    (resp.op \in {"generate", "seed", "save"} /\ resp.status # 422
        /\ resp.store /\ resp.ok) =>
        \A i \in 1..Len(resp.handed) :
            \E j \in 1..Len(get_all_invoices(Db)) :
                get_all_invoices(Db)[j] = resp.handed[i]

\* C5, amended: after a successful save listAll() holds, for every record
\* handed to it, a record that agrees with it on every key other than _id
\* and _created_at (same keys present, same values); on the flat-file
\* backend the two records are equal, on the document-store backend the
\* stored record carries _id and _created_at.
SavedRecordsReadBackExceptStoreKeys ==
    (resp.op \in {"generate", "seed", "save"} /\ resp.status # 422
        /\ resp.store /\ resp.ok) =>
        \A i \in 1..Len(resp.handed) :
            \E j \in 1..Len(get_all_invoices(Db)) :
                LET r == resp.handed[i]
                    s == get_all_invoices(Db)[j]
                IN /\ DOMAIN s \ StoreKeys = DOMAIN r \ StoreKeys
                   /\ \A k \in DOMAIN r \ StoreKeys : s[k] = r[k]
                   /\ database_type = "json" => s = r
                   /\ database_type = "mongodb" => StoreKeys \subseteq DOMAIN s

\* a saved record with None values, an absent key and a nested list
SavedRecordsReadBackWitness ==
    /\ resp.op \in {"generate", "seed"}
    /\ resp.status = 200
    /\ resp.store
    /\ \E i \in 1..Len(resp.handed) :
           /\ resp.handed[i].received_at = PyNone
           /\ resp.handed[i].invoice_data.v["amount"] = PyNone
           /\ "invoice_id" \notin DOMAIN resp.handed[i].invoice_data.v
           /\ "line_items" \in DOMAIN resp.handed[i].invoice_data.v

\* C6: clear reports success and leaves count() = 0, whatever was stored,
\* also when the request before it was a clear.
ClearLeavesEmptyCollection ==
    resp.op = "clear" =>
        /\ resp.ok
        /\ resp.status = 200
        /\ get_invoice_count(Db) = 0
        /\ get_all_invoices(Db) = <<>>

\* the second of two clears in a row
ClearTwiceWitness ==
    /\ resp.op = "clear"
    /\ resp.after_clear
    /\ get_invoice_count(Db) = 0

\* C7: save of an empty batch reports success and changes neither count()
\* nor the sequence listAll() returns.
SaveEmptyBatchChangesNothing ==
    [][(resp'.op = "save" /\ resp'.handed = <<>>) =>
          /\ resp'.ok
          /\ get_invoice_count(Db') = get_invoice_count(Db)
          /\ get_all_invoices(Db') = get_all_invoices(Db)]_vars

\* an empty batch saved to a collection that holds records
SaveEmptyBatchWitness ==
    /\ resp.op = "save"
    /\ resp.handed = <<>>
    /\ resp.ok
    /\ get_invoice_count(Db) > 0

\* C8 as claimed: a valid stored-list request for an existing page is
\* answered with the stored records at positions skip .. min(skip +
\* page_size, total) - 1, in storage order.
StoredPageIsRequestedSlice ==
    (resp.op = "stored" /\ resp.status \notin {400, 422}) =>
        /\ resp.status = 200
        /\ resp.data =
               SubSeq(get_all_invoices(Db), resp.skip + 1,
                      IF resp.skip + resp.page_size < resp.total
                      THEN resp.skip + resp.page_size ELSE resp.total)

\* C9: the total_pages the stored-list handler computes is the least number
\* of pages of page_size records that hold total records when total > 0,
\* and 1 when total = 0.
TotalPagesIsCeiling ==
    (resp.op = "stored" /\ resp.status # 422) =>
        IF resp.total > 0
        THEN /\ resp.total_pages * resp.page_size >= resp.total
             /\ (resp.total_pages - 1) * resp.page_size < resp.total
        ELSE resp.total_pages = 1

\* a total that is not a multiple of the page size, with total_pages
\* reported in the detail of a 400 answer
TotalPagesIsCeilingWitness ==
    /\ resp.op = "stored"
    /\ resp.status = 400
    /\ resp.total > 0
    /\ resp.total % resp.page_size # 0

\* C10 as claimed: a valid stored-list request is rejected (400) exactly
\* when page > total_pages and total > 0, a rejected request reads no page,
\* and with total = 0 every page is answered with an empty page.
StoredListRejectsOnlyMissingPages ==
    (resp.op = "stored" /\ resp.status # 422) =>
        /\ resp.status = 400 <=> (resp.page > resp.total_pages /\ resp.total > 0)
        /\ resp.status = 400 => resp.page_reads = 0
        /\ resp.total = 0 => (resp.status = 200 /\ resp.data = <<>>)

\* C11 as claimed: every accepted stored-list request is answered with
\* has_next = (page < total_pages) and has_prev = (page > 1), read from the
\* offset (page - 1) * page_size, so that has_next tells whether records
\* are stored beyond the window of the page.
StoredListReportsNeighbours ==
    (resp.op = "stored" /\ resp.status \notin {400, 422}) =>
        /\ resp.skip = (resp.page - 1) * resp.page_size
        /\ "has_next" \in DOMAIN resp /\ "has_prev" \in DOMAIN resp
        /\ resp.has_next = (resp.page < resp.total_pages)
        /\ resp.has_prev = (resp.page > 1)
        /\ resp.has_next = (resp.skip + resp.page_size < resp.total)

\* C12 as claimed: the backend the factory selected has every operation
\* the handlers call, and a stored-list request for an existing page is
\* completed with a page, not with an error.
BackendsProvideListPage ==
    /\ "get_paginated_invoices" \in BackendMethods(database_type)
    /\ (resp.op = "stored" /\ resp.status \notin {400, 422}) =>
           (resp.status = 200 /\ resp.page_reads = 1)

\* C17: a successful save of a batch makes count() grow by the length of
\* the batch, also when records of the batch are equal to each other or to
\* records already stored.
SaveCountsEveryRecord ==
    [][(/\ resp'.op \in {"generate", "seed", "save"}
        /\ resp'.status # 422
        /\ resp'.store
        /\ resp'.ok)
          => get_invoice_count(Db') = get_invoice_count(Db) + Len(resp'.handed)]_vars

\* a stored batch of two equal records
SaveCountsEveryRecordWitness ==
    /\ resp.op \in {"generate", "seed"}
    /\ resp.status = 200
    /\ resp.store
    /\ Len(resp.handed) = 2
    /\ resp.handed[1] = resp.handed[2]
    /\ get_invoice_count(Db) = 2

AllDone == \A p \in TaskIds : tasks.reqs[p].pc = "done"

\* the records of the batch of request p that it generated itself
FreshOf(p) == {k \in 1..Len(tasks.reqs[p].batch) : tasks.reqs[p].batch[k].h > 0}

\* C13: on the flat-file backend, when two save requests that were in
\* flight together have both reported success, the stored collection holds
\* every record of both batches and count() is the sum of their lengths.
ConcurrentSavesLoseNothing ==
    (/\ database_type = "json"
     /\ AllDone
     /\ \A p \in TaskIds : tasks.reqs[p].store /\ tasks.reqs[p].ok) =>
        /\ get_invoice_count(Db) =
               Len(tasks.reqs[1].batch) + Len(tasks.reqs[2].batch)
        /\ \A p \in TaskIds : \A k \in 1..Len(tasks.reqs[p].batch) :
               \E j \in 1..Len(get_all_invoices(Db)) :
                   get_all_invoices(Db)[j] = tasks.reqs[p].batch[k].email

\* two requests have stored their batches in the flat file
ConcurrentSavesWitness ==
    /\ database_type = "json"
    /\ AllDone
    /\ \A p \in TaskIds : tasks.reqs[p].store /\ tasks.reqs[p].ok
    /\ get_invoice_count(Db) >= 2

\* C14: whenever no request is inside a step sequence of its own, the
\* message ids of the records generated so far are msg_001 .. msg_n with
\* n the length of the history, each held once, and the counter is n + 1:
\* no id was given twice and none was skipped.
ConcurrentGenerationKeepsIdsDense ==
    tasks.running = 0 =>
        /\ message_counter = Len(generated_messages) + 1
        /\ {generated_messages[k].message_id.v : k \in 1..Len(generated_messages)}
               = {"msg_" \o Pad3(k) : k \in 1..Len(generated_messages)}
        /\ \A p, q \in TaskIds : \A k \in FreshOf(p), l \in FreshOf(q) :
               (tasks.reqs[p].batch[k].email.message_id
                    = tasks.reqs[q].batch[l].email.message_id)
                   => (p = q /\ k = l)

\* a request generated a record while another request, which had generated
\* one too, was suspended in its insert
ConcurrentGenerationWitness ==
    \E p, q \in TaskIds :
        /\ p # q
        /\ tasks.reqs[p].pc = "insert"
        /\ tasks.reqs[q].pc = "done"
        /\ \E k \in FreshOf(p), l \in FreshOf(q) :
               tasks.reqs[p].batch[k].h < tasks.reqs[q].batch[l].h

\* C15 as claimed: a flat-file save or clear that fails leaves listAll()
\* and count() returning what they returned before it.
FailedFlatFileWriteKeepsData ==
    [][(/\ database_type = "json"
        /\ resp'.op \in {"generate", "seed", "clear"}
        /\ resp'.fault # "none")
          => /\ get_all_invoices(Db') = get_all_invoices(Db)
             /\ get_invoice_count(Db') = get_invoice_count(Db)]_vars

\* C16: when the storage fails during save or clear, on either backend,
\* the operation returns false, no exception leaves it, and the generate,
\* seed and clear requests are answered 500; a request is answered 200
\* only when the operation returned true.
StorageErrorsAreReportedAsFalse ==
    resp.op \in {"generate", "seed", "clear"} =>
        /\ resp.fault # "none" => (~resp.ok /\ ~resp.escaped /\ resp.status = 500)
        /\ ~resp.ok => resp.status = 500
        /\ resp.status = 200 => resp.ok

\* a seed whose write failed after a seed that succeeded
StorageErrorsWitness ==
    /\ resp.op = "seed"
    /\ resp.fault \in {"write", "reply"}
    /\ resp.status = 500
    /\ Len(generated_messages) >= 2

\* C19: with authentication enabled, a generate, seed, stored-list or clear
\* request whose Authorization header is missing, carries no token signed
\* with the secret key, or carries an expired one, is answered 401 or 403
\* and leaves the generator and the stored collection as they were; these
\* requests change the generator or the storage, or are answered otherwise,
\* only with a token that verifies.
UnverifiedRequestsAreRejected ==
    [][(resp' # resp /\ resp'.op \in {"generate", "seed", "stored", "clear"})
         => LET c == resp'.credentials
                missing == c.scheme # "Bearer"
                invalid == ~missing /\ (~c.jwt \/ c.key # SecretKey)
                expired == /\ ~missing /\ ~invalid
                           /\ "exp" \in DOMAIN c.payload
                           /\ c.payload.exp < resp'.at
            IN /\ enable_auth
               /\ (missing \/ invalid \/ expired)
                    => /\ resp'.status \in {401, 403}
                       /\ UNCHANGED <<genVars, dbVars>>
               /\ (resp'.status \notin {401, 403}
                      \/ <<genVars, dbVars>>' # <<genVars, dbVars>>)
                    => ~(missing \/ invalid \/ expired)]_vars

\* a seed request with an expired token, rejected after an earlier request
\* generated and stored a record
UnverifiedRequestsWitness ==
    /\ resp.op = "seed"
    /\ resp.status = 401
    /\ resp.credentials.scheme = "Bearer"
    /\ resp.credentials.jwt
    /\ resp.credentials.key = SecretKey
    /\ "exp" \in DOMAIN resp.credentials.payload
    /\ resp.credentials.payload.exp < resp.at
    /\ generated_messages # <<>>
    /\ get_invoice_count(Db) > 0

\* C20: a register or list-users request whose token verifies and names a
\* user but whose role is not admin is answered 403 and leaves the user
\* table unchanged; the handlers run (answer 200 or 400) only for a
\* verified token whose role is admin.
UserManagementIsAdminOnly ==
    [][(resp' # resp /\ resp'.op \in {"register", "users"})
         => LET c == resp'.credentials
                valid == /\ c.scheme = "Bearer" /\ c.jwt /\ c.key = SecretKey
                         /\ "exp" \in DOMAIN c.payload
                               => c.payload.exp >= resp'.at
                         /\ "sub" \in DOMAIN c.payload
                admin == /\ "role" \in DOMAIN c.payload
                         /\ c.payload.role = "admin"
            IN /\ (valid /\ ~admin)
                    => (resp'.status = 403 /\ users_db' = users_db)
               /\ (resp'.status \in {200, 400} \/ users_db' # users_db)
                    => (valid /\ admin)]_vars

\* the candidate's token is refused registration after the admin
\* registered a user
UserManagementWitness ==
    /\ resp.op = "register"
    /\ resp.status = 403
    /\ resp.credentials.scheme = "Bearer"
    /\ resp.credentials.jwt
    /\ "role" \in DOMAIN resp.credentials.payload
    /\ resp.credentials.payload.role = "candidate"
    /\ "newuser" \in DOMAIN users_db

DuplicateUsernameIsRefused ==
    [][/\ (/\ resp' # resp
           /\ resp'.op = "register"
           /\ "username" \in DOMAIN resp'
           /\ resp'.username \in DOMAIN users_db)
            => (resp'.status = 400 /\ users_db' = users_db)
       /\ \A u \in DOMAIN users_db :
              u \in DOMAIN users_db' /\ users_db'[u] = users_db[u]]_vars

\* newuser was registered as a candidate; a second registration of newuser
\* as an admin is refused
DuplicateUsernameWitness ==
    /\ resp.op = "register"
    /\ resp.status = 400
    /\ resp.username = "newuser"
    /\ resp.role = "admin"
    /\ users_db["newuser"].role = "candidate"

\* C22 as claimed: save leaves the records handed to it, and with them the
\* records of the history, as they were: after a generate or seed request
\* that stored its batch, the batch is what generate_batch returned and
\* every fresh record of it is equal to the history record it was appended
\* as.
SaveLeavesGeneratorState ==
    (resp.op \in {"generate", "seed"} /\ resp.status # 422 /\ resp.store) =>
        /\ resp.data = resp.handed
        /\ \A i \in 1..Len(resp.batch) :
               resp.batch[i].h > 0 =>
                   generated_messages[resp.batch[i].h] = resp.handed[i]

\* C23: the freshly generated records of a batch appear in it in the order
\* of their message sequence numbers, and these continue the numbers of the
\* earlier batches: the fresh record followed by n fresh records in its
\* batch carries the number message_counter - (n + 1) of the counter the
\* batch left.
BatchKeepsGenerationOrder ==
    (resp.op \in {"generate", "seed"} /\ resp.status # 422) =>
        LET fresh == {i \in 1..Len(resp.batch) : resp.batch[i].h > 0}
        IN \A i \in fresh :
               resp.batch[i].email.message_id =
                   PyStr("msg_" \o Pad3(message_counter
                                          - Cardinality({j \in fresh : j >= i})))

\* a batch of two fresh records
BatchKeepsGenerationOrderWitness ==
    /\ resp.op \in {"generate", "seed"}
    /\ resp.status # 422
    /\ Len(resp.batch) = 2
    /\ \A i \in 1..2 : resp.batch[i].h > 0

\* C24: on the document store, a generate or seed request that stores a
\* non-empty batch has save report success if and only if the store raised
\* no error and every document of the batch went into the collection; a
\* batch of which only a part went in, and an error from the store, make
\* save report failure.
MongoSaveSucceedsIffAllInserted ==
    [][(/\ database_type = "mongodb"
        /\ resp'.op \in {"generate", "seed"}
        /\ resp' # resp \/ collection' # collection)
          => LET inserted == Len(collection') - Len(collection)
             IN resp'.ok <=> (/\ resp'.fault = "none"
                              /\ inserted = Len(resp'.handed))]_vars

\* a batch of two whose first document went in and whose second, a copy of
\* a stored record, was refused
MongoPartialInsertWitness ==
    /\ database_type = "mongodb"
    /\ resp.op \in {"generate", "seed"}
    /\ resp.fault = "none"
    /\ ~resp.ok
    /\ Len(resp.handed) = 2
    /\ "_id" \notin DOMAIN resp.handed[1]
    /\ "_id" \in DOMAIN resp.handed[2]

\* C25 as claimed: a generator whose inconsistency rate is 0 builds, for
\* every value of its draws, a fresh record that has invoice_id, amount and
\* currency, whose amount is the positive number drawn and whose
\* received_at is the ISO text ending in Z.
RateZeroGivesNoDefect ==
    (inconsistency_rate = 0 /\ resp.op = "email" /\ resp.batch[1].h > 0) =>
        LET e == resp.batch[1].email
            data == e.invoice_data.v
        IN /\ {"invoice_id", "amount", "currency"} \subseteq DOMAIN data
           /\ data.amount = PyFloat(resp.drawn.base_amount)
           /\ resp.drawn.base_amount > 0
           /\ e.received_at = generate_datetime(0, resp.drawn)
           /\ e.received_at.t = "str"

\* C26: in every record generated, fresh or duplicate, the currency key is
\* absent or holds one of the five codes, never null; the amount key is
\* absent exactly when the omission draw says so, and when the amount drawn
\* is null the key is present and holds null.
CurrencyNeverNullAmountMayBe ==
    resp.op = "email" =>
        LET data == resp.batch[1].email.invoice_data.v
            d == resp.drawn
        IN /\ "currency" \in DOMAIN data =>
                  \E k \in 1..Len(Currencies) : data.currency = PyStr(Currencies[k])
           /\ resp.batch[1].h > 0 =>
                 /\ "amount" \in DOMAIN data
                        <=> d.inc_amt * 10 > inconsistency_rate * 2
                 /\ ("amount" \in DOMAIN data /\ generate_amount(inconsistency_rate, d) = PyNone)
                        => data.amount = PyNone

\* a fresh record whose amount key is present and holds null, and which has
\* no currency key
NullAmountWitness ==
    /\ resp.op = "email"
    /\ resp.batch[1].h > 0
    /\ "amount" \in DOMAIN resp.batch[1].email.invoice_data.v
    /\ resp.batch[1].email.invoice_data.v.amount = PyNone
    /\ "currency" \notin DOMAIN resp.batch[1].email.invoice_data.v

\* C28: after every generate or seed request message_counter - 1,
\* invoice_counter - 1001 and the length of the history are equal; a request
\* raises them by the number of fresh records of its batch, so a duplicate
\* raises none of them; and the message ids held in the history are
\* pairwise distinct.
CountersFollowFreshRecords ==
    [][/\ message_counter' - InitialMessageCounter = Len(generated_messages')
       /\ invoice_counter' - InitialInvoiceCounter = Len(generated_messages')
       /\ (/\ resp'.op \in {"generate", "seed"}
           /\ resp'.status # 422
           /\ resp' # resp \/ message_counter' # message_counter)
            => Len(generated_messages') - Len(generated_messages) =
                   Cardinality({i \in 1..Len(resp'.batch) : resp'.batch[i].h > 0})
       /\ \A i, j \in 1..Len(generated_messages') :
              generated_messages'[i].message_id = generated_messages'[j].message_id
                  => i = j]_vars

\* a batch of a fresh record and a duplicate
CountersFollowFreshRecordsWitness ==
    /\ resp.op \in {"generate", "seed"}
    /\ resp.status # 422
    /\ Len(resp.batch) = 2
    /\ resp.batch[1].h > 0
    /\ resp.batch[2].h = 0
    /\ Len(generated_messages) = 1

UnreadableFileIsEmptyCollection ==
    [][(database_type = "json" /\ ~IsJson(file)) =>
          /\ get_all_invoices(Db) = <<>>
          /\ get_invoice_count(Db) = 0
          /\ (/\ resp'.op \in {"generate", "seed"}
              /\ resp'.fault = "none"
              /\ IsJson(file'))
                => /\ resp'.ok
                   /\ resp'.status = 200
                   /\ get_all_invoices(Db') = resp'.handed
                   /\ get_invoice_count(Db') = Len(resp'.handed)]_vars

\* a save that succeeded on a file a failed write had cut off while records
\* were stored, and one that succeeded after the file was removed
UnreadableFileWitness ==
    /\ database_type = "json"
    /\ resp.op \in {"generate", "seed"}
    /\ resp.unreadable
    /\ resp.fault = "none"
    /\ resp.ok
    /\ Len(generated_messages) > Len(resp.handed)

====
